---- MODULE Spec2Model ----
(***************************************************************************)
(* MangaMaker: the upload / generation session of src/App.tsx, the fan-out *)
(* of src/services/geminiService.ts and the drawing surface of             *)
(* src/components/DrawingCanvas.tsx, as one state machine.                 *)
(*                                                                         *)
(* Handlers are actions.  An async handler is split at its awaits: the     *)
(* part up to the first await is the action that starts it, and every      *)
(* settlement of an awaited promise is an action that runs the handler's   *)
(* continuation up to its next await (or to its end).                      *)
(***************************************************************************)
EXTENDS Integers, Sequences, FiniteSets, TLC

VARIABLES
    characterImages,   \* App.tsx:8   useState<string[]>([])
    poseImage,         \* App.tsx:9   useState<string | null>(null)
    generatedImages,   \* App.tsx:10  useState<string[]>([])
    isGenerating,      \* App.tsx:11  useState(false)
    error,             \* App.tsx:12  useState<string | null>(null)
    customPrompt,      \* App.tsx:13  useState("")
    uploads,           \* handleCharacterFiles invocations suspended at `await readFile`
    poseReads,         \* handlePoseFile invocations suspended at `await readFile`
    poseChosen,        \* the pose the user chose last: the image of the last readable
                       \* file selected, null since the last Clear
    batch,             \* the generateMangaPanel invocation suspended at `await Promise.all`
    outcome,           \* how the latest generateMangaPanel invocation ended, and what
                       \* the remote capability had answered to it
    issued,            \* remote generateContent calls issued so far
    actions,           \* user-triggered operations performed so far
    width,             \* DrawingCanvas.tsx:10  the width prop
    height,            \* DrawingCanvas.tsx:10  the height prop
    contextAvailable,  \* whether canvas.getContext('2d') yields a context
    ctxRef,            \* DrawingCanvas.tsx:14  ctxRef.current
    buffer,            \* the canvas bitmap: its size and the segments rasterized on the fill
    path,              \* the current path of the 2d context
    isDrawing,         \* DrawingCanvas.tsx:12  useState(false)
    hasContent,        \* DrawingCanvas.tsx:13  useState(false)
    drawnSince         \* a stroke was begun or rasterized since the last fill of the bitmap

appVars == <<characterImages, poseImage, generatedImages, isGenerating, error,
             customPrompt, uploads, poseReads, poseChosen>>
svcVars == <<batch, outcome, issued>>
canvasVars == <<width, height, contextAvailable, ctxRef, buffer, path, isDrawing,
                hasContent, drawnSince>>
vars == <<appVars, svcVars, actions, canvasVars>>

----------------------------------------------------------------------------
(* Bounds of the model *)

\* user-triggered operations in one behaviour
MaxActions == 2

\* files in one selection or drop
MaxFiles == 2

----------------------------------------------------------------------------
(* Values *)

\* JavaScript null / undefined
Null == [null |-> TRUE]

\* error === null
NoError == "null"

\* A File: its declared content type, its content, and whether FileReader can
\* read it.  A data URL `data:<mime>;base64,<payload>` is [mime, data].
PngA == [type |-> "image/png", data |-> 1, readable |-> TRUE]
GifB == [type |-> "image/gif", data |-> 2, readable |-> TRUE]
Broken == [type |-> "image/png", data |-> 3, readable |-> FALSE]
Text == [type |-> "text/plain", data |-> 4, readable |-> TRUE]

Files == {PngA, GifB, Broken, Text}

\* a selection or a drop: up to MaxFiles files, no file twice
FileLists ==
    UNION {{files \in [1..n -> Files] :
               \A i, j \in 1..n : files[i] = files[j] => i = j} : n \in 0..MaxFiles}

\* a FileList argument that is null
NullFileList == <<Null>>

\* file.type.startsWith('image/')
IsImageType(file) == file.type \in {"image/png", "image/gif"}

\* what readFile resolves to: reader.result, the data URL of the file
DataUrl(file) == [mime |-> file.type, data |-> file.data]

\* the index of the first file at or after i that the loop awaits a read for
\* (the loop skips files whose type is not an image type), Len(files)+1 if none
RECURSIVE NextImageFile(_, _)
NextImageFile(files, i) ==
    IF i > Len(files) THEN Len(files) + 1
    ELSE IF IsImageType(files[i]) THEN i
    ELSE NextImageFile(files, i + 1)

\* s without its k-th element
RemoveAt(s, k) == [j \in 1..(Len(s) - 1) |-> IF j < k THEN s[j] ELSE s[j + 1]]

----------------------------------------------------------------------------
(* Upload Normalizer: src/App.tsx *)

\* handleCharacterFiles, from its call to its first await (or to its end when
\* no file of the list is image-typed)
HandleCharacterFiles(files) ==
    /\ actions < MaxActions
    /\ actions' = actions + 1
    /\ IF files = NullFileList
       THEN UNCHANGED <<appVars, svcVars>>
       ELSE LET i == NextImageFile(files, 1)
            IN /\ error' = NoError
               /\ uploads' = IF i > Len(files) THEN uploads
                             ELSE Append(uploads, [files |-> files, i |-> i, newImages |-> <<>>])
               /\ UNCHANGED <<characterImages, poseImage, generatedImages, isGenerating,
                              customPrompt, poseReads, poseChosen, svcVars>>
    /\ UNCHANGED canvasVars

\* Variant: a read that fails ends the loop: the files read so far are dropped
CharacterReadSettlesAborting(k) ==
    LET u == uploads[k]
        file == u.files[u.i]
        newImages == IF file.readable THEN Append(u.newImages, DataUrl(file))
                     ELSE <<>>
        i == IF file.readable THEN NextImageFile(u.files, u.i + 1) ELSE Len(u.files) + 1
    IN /\ IF i <= Len(u.files)
          THEN /\ uploads' = [uploads EXCEPT ![k] = [files |-> u.files, i |-> i,
                                                     newImages |-> newImages]]
               /\ UNCHANGED characterImages
          ELSE /\ uploads' = RemoveAt(uploads, k)
               /\ characterImages' = IF Len(newImages) > 0
                                     THEN characterImages \o newImages
                                     ELSE characterImages
       /\ UNCHANGED <<poseImage, generatedImages, isGenerating, error, customPrompt,
                      poseReads, poseChosen, svcVars, actions>>
       /\ UNCHANGED canvasVars

\* readFile settles for the k-th suspended handleCharacterFiles: the rest of its
\* loop up to the next await, or the append after the loop
CharacterReadSettles(k) ==
    LET u == uploads[k]
        file == u.files[u.i]
        newImages == IF file.readable THEN Append(u.newImages, DataUrl(file))
                     ELSE u.newImages
        i == NextImageFile(u.files, u.i + 1)
    IN /\ IF i <= Len(u.files)
          THEN /\ uploads' = [uploads EXCEPT ![k] = [files |-> u.files, i |-> i,
                                                     newImages |-> newImages]]
               /\ UNCHANGED characterImages
          ELSE /\ uploads' = RemoveAt(uploads, k)
               /\ characterImages' = IF Len(newImages) > 0
                                     THEN characterImages \o newImages
                                     ELSE characterImages
       /\ UNCHANGED <<poseImage, generatedImages, isGenerating, error, customPrompt,
                      poseReads, poseChosen, svcVars, actions>>
       /\ UNCHANGED canvasVars

\* Variant: a rejected pose file also drops the pose held so far
HandlePoseFileResetting(file) ==
    /\ actions < MaxActions
    /\ actions' = actions + 1
    /\ IF file /= Null /\ IsImageType(file)
       THEN /\ poseReads' = Append(poseReads, file)
            /\ poseChosen' = IF file.readable THEN DataUrl(file) ELSE poseChosen
            /\ UNCHANGED <<error, poseImage>>
       ELSE /\ error' = IF file /= Null THEN "Please upload a valid image file." ELSE error
            /\ poseImage' = IF file /= Null THEN Null ELSE poseImage
            /\ UNCHANGED <<poseReads, poseChosen>>
    /\ UNCHANGED <<characterImages, generatedImages, isGenerating,
                   customPrompt, uploads, svcVars>>
    /\ UNCHANGED canvasVars

\* handlePoseFile, from its call to its await
HandlePoseFile(file) ==
    /\ actions < MaxActions
    /\ actions' = actions + 1
    /\ IF file /= Null /\ IsImageType(file)
       THEN /\ poseReads' = Append(poseReads, file)
            /\ poseChosen' = IF file.readable THEN DataUrl(file) ELSE poseChosen
            /\ UNCHANGED error
       ELSE /\ error' = IF file /= Null THEN "Please upload a valid image file." ELSE error
            /\ UNCHANGED <<poseReads, poseChosen>>
    /\ UNCHANGED <<characterImages, poseImage, generatedImages, isGenerating,
                   customPrompt, uploads, svcVars>>
    /\ UNCHANGED canvasVars

\* Variant: the pose is replaced without the error slot being cleared
PoseReadSettlesKeepingError(k) ==
    LET file == poseReads[k]
    IN /\ poseReads' = RemoveAt(poseReads, k)
       /\ poseImage' = IF file.readable THEN DataUrl(file) ELSE poseImage
       /\ UNCHANGED <<characterImages, generatedImages, isGenerating, customPrompt,
                      uploads, poseChosen, svcVars, actions, error>>
       /\ UNCHANGED canvasVars

\* readFile settles for the k-th suspended handlePoseFile; a rejected read
\* leaves the handler with an unhandled rejection and the state as it was
PoseReadSettles(k) ==
    LET file == poseReads[k]
    IN /\ poseReads' = RemoveAt(poseReads, k)
       /\ IF file.readable
          THEN /\ poseImage' = DataUrl(file)
               /\ error' = NoError
          ELSE UNCHANGED <<poseImage, error>>
       /\ UNCHANGED <<characterImages, generatedImages, isGenerating, customPrompt,
                      uploads, poseChosen, svcVars, actions>>
       /\ UNCHANGED canvasVars

\* removeCharacterImage(index), from the button of the index-th thumbnail
RemoveCharacterImage(index) ==
    /\ actions < MaxActions
    /\ actions' = actions + 1
    /\ index \in 0..(Len(characterImages) - 1)
    /\ characterImages' = RemoveAt(characterImages, index + 1)
    /\ UNCHANGED <<poseImage, generatedImages, isGenerating, error, customPrompt,
                   uploads, poseReads, poseChosen, svcVars>>
    /\ UNCHANGED canvasVars

\* the "Clear All" button, rendered while characterImages is not empty
ClearCharacters ==
    /\ actions < MaxActions
    /\ actions' = actions + 1
    /\ Len(characterImages) > 0
    /\ characterImages' = <<>>
    /\ UNCHANGED <<poseImage, generatedImages, isGenerating, error, customPrompt,
                   uploads, poseReads, poseChosen, svcVars>>
    /\ UNCHANGED canvasVars

\* the "Clear" button of the pose, rendered while poseImage is set
ClearPose ==
    /\ actions < MaxActions
    /\ actions' = actions + 1
    /\ poseImage /= Null
    /\ poseImage' = Null
    /\ poseChosen' = Null
    /\ UNCHANGED <<characterImages, generatedImages, isGenerating, error, customPrompt,
                   uploads, poseReads, svcVars>>
    /\ UNCHANGED canvasVars

\* the context input: setCustomPrompt(e.target.value)
SetCustomPrompt(text) ==
    /\ actions < MaxActions
    /\ actions' = actions + 1
    /\ text /= customPrompt
    /\ customPrompt' = text
    /\ UNCHANGED <<characterImages, poseImage, generatedImages, isGenerating, error,
                   uploads, poseReads, poseChosen, svcVars>>
    /\ UNCHANGED canvasVars

----------------------------------------------------------------------------
(* Generation Orchestrator: src/services/geminiService.ts *)

\* const numberOfVariations = 10
numberOfVariations == 10

Calls == 1..numberOfVariations

\* a call of the batch that has not settled
Pending == [pending |-> TRUE]

\* img.replace(/^data:image\/(png|jpeg|jpg|webp);base64,/, ""): the payload, and
\* the prefix the replace leaves in front of it ("" when the pattern matched)
CleanBase64(img) ==
    IF img.mime \in {"image/png", "image/jpeg", "image/jpg", "image/webp"}
    THEN [prefix |-> "", payload |-> img.data]
    ELSE [prefix |-> img.mime, payload |-> img.data]

\* characterParts
CharacterParts(characterImageBase64s) ==
    [j \in 1..Len(characterImageBase64s) |->
        [mimeType |-> "image/png", data |-> CleanBase64(characterImageBase64s[j])]]

\* promptText: the template, with its two interpolations
PromptText(characterImageBase64s, additionalPrompt) ==
    [sheets |-> Len(characterImageBase64s),
     additional |-> IF additionalPrompt /= "" THEN additionalPrompt ELSE ""]

\* Variant: the payload without the user's context
RequestWithoutContext(characterImageBase64s, poseImageBase64, additionalPrompt) ==
    [model |-> "gemini-2.5-flash-image",
     text |-> PromptText(characterImageBase64s, ""),
     parts |-> CharacterParts(characterImageBase64s)
               \o <<[mimeType |-> "image/png", data |-> CleanBase64(poseImageBase64)]>>,
     aspectRatio |-> "16:9"]

\* the argument of ai.models.generateContent, the same for every call
Request(characterImageBase64s, poseImageBase64, additionalPrompt) ==
    [model |-> "gemini-2.5-flash-image",
     text |-> PromptText(characterImageBase64s, additionalPrompt),
     parts |-> CharacterParts(characterImageBase64s)
               \o <<[mimeType |-> "image/png", data |-> CleanBase64(poseImageBase64)]>>,
     aspectRatio |-> "16:9"]

\* What the remote capability can answer to call i: a rejection, or a response
\* whose candidates are missing (a blocked prompt), empty, without content, or hold parts with or
\* without inline data.  The image of call i carries payload i.
Throws == [throws |-> TRUE]
TextPart == [text |-> "caption"]
InlinePart(i) == [inlineData |-> [data |-> i]]
Responses(i) ==
    {Throws,
     [promptFeedback |-> "blocked"],
     [candidates |-> <<>>],
     [candidates |-> <<[content |-> Null]>>],
     [candidates |-> <<[content |-> [parts |-> <<TextPart>>]]>>],
     [candidates |-> <<[content |-> [parts |-> <<InlinePart(i)>>]]>>],
     [candidates |-> <<[content |-> [parts |-> <<TextPart, InlinePart(i)>>]]>>]}

\* the first part of the candidate that carries inline data, as a data URL
RECURSIVE FirstInline(_, _)
FirstInline(parts, j) ==
    IF j > Len(parts) THEN Null
    ELSE IF "inlineData" \in DOMAIN parts[j]
         THEN [mime |-> "image/png", data |-> parts[j].inlineData.data]
         ELSE FirstInline(parts, j + 1)

\* Variant: generateSingleImage reading only the first part of the candidate
GenerateSingleImageFirstPart(response) ==
    IF response = Throws THEN Null
    ELSE IF "candidates" \notin DOMAIN response THEN Null
    ELSE IF Len(response.candidates) = 0 THEN Null
    ELSE IF response.candidates[1].content = Null THEN Null
    ELSE IF "inlineData" \in DOMAIN response.candidates[1].content.parts[1]
         THEN [mime |-> "image/png",
               data |-> response.candidates[1].content.parts[1].inlineData.data]
         ELSE Null

\* generateSingleImage, from the settlement of its generateContent call: the
\* data URL of the image, or null (a rejection, and the TypeError of reading
\* the parts of a candidate without content, end in the catch)
GenerateSingleImage(response) ==
    IF response = Throws THEN Null
    ELSE IF "candidates" \notin DOMAIN response THEN Null
    ELSE IF Len(response.candidates) = 0 THEN Null
    ELSE IF response.candidates[1].content = Null THEN Null
    ELSE FirstInline(response.candidates[1].content.parts, 1)

\* results.filter(img => img !== null), over the array Promise.all resolves to
RECURSIVE ValidImagesFrom(_, _)
ValidImagesFrom(results, j) ==
    IF j > numberOfVariations THEN <<>>
    ELSE IF results[j] /= Null THEN <<results[j]>> \o ValidImagesFrom(results, j + 1)
    ELSE ValidImagesFrom(results, j + 1)

\* Variant: the images in the order in which their calls settled
RECURSIVE ImagesInOrder(_, _, _)
ImagesInOrder(results, order, j) ==
    IF j > Len(order) THEN <<>>
    ELSE IF results[order[j]] /= Null
         THEN <<results[order[j]]>> \o ImagesInOrder(results, order, j + 1)
         ELSE ImagesInOrder(results, order, j + 1)

ValidImagesBySettlement(results) ==
    LET last == CHOOSE i \in Calls : \A j \in 1..Len(batch.order) : batch.order[j] /= i
    IN ImagesInOrder(results,
                     IF Len(batch.order) < numberOfVariations
                     THEN Append(batch.order, last) ELSE batch.order, 1)

ValidImages(results) == ValidImagesFrom(results, 1)

\* generateMangaPanel, from its call to `await Promise.all(promises)`: the
\* payload is built and the ten calls are issued, or `.replace` of a null pose
\* throws before any of that
StartBatch(caller, characterImageBase64s, poseImageBase64, additionalPrompt) ==
    IF poseImageBase64 = Null
    THEN /\ outcome' = [caller |-> caller, kind |-> "raised", images |-> <<>>,
                         message |-> "TypeError", order |-> <<>>, carried |-> {}]
         /\ UNCHANGED <<batch, issued>>
    ELSE /\ batch' = [caller |-> caller,
                      requests |-> [i \in Calls |-> Request(characterImageBase64s,
                                                            poseImageBase64,
                                                            additionalPrompt)],
                      results |-> [i \in Calls |-> Pending],
                      order |-> <<>>,
                      carried |-> {}]
         /\ issued' = issued + numberOfVariations
         /\ outcome' = Null

\* Variant: an empty batch returned as a success
AggregateEmptySuccess(results) ==
    [kind |-> "returned", images |-> ValidImages(results), message |-> ""]

\* generateMangaPanel after Promise.all: what it returns or throws
Aggregate(results) ==
    LET validImages == ValidImages(results)
    IN IF Len(validImages) = 0
       THEN [kind |-> "raised", images |-> <<>>, message |-> "Failed to generate any images."]
       ELSE [kind |-> "returned", images |-> validImages, message |-> ""]

\* handleGenerate after `await generateMangaPanel(...)`: try, catch, finally
\* Variant: the flag reset at the end of the try block instead of in a finally
AfterGenerateWithoutFinally(result) ==
    /\ IF result.kind = "returned"
       THEN /\ generatedImages' = result.images
            /\ isGenerating' = FALSE
            /\ UNCHANGED error
       ELSE /\ error' = result.message
            /\ UNCHANGED <<generatedImages, isGenerating>>

AfterGenerate(result) ==
    /\ IF result.kind = "returned"
       THEN /\ generatedImages' = result.images
            /\ UNCHANGED error
       ELSE /\ error' = result.message
            /\ UNCHANGED generatedImages
    /\ isGenerating' = FALSE

\* whether a response carries an image: a first candidate with an inline part
CarriesImage(response) ==
    /\ "candidates" \in DOMAIN response
    /\ Len(response.candidates) > 0
    /\ response.candidates[1].content /= Null
    /\ \E j \in 1..Len(response.candidates[1].content.parts) :
           "inlineData" \in DOMAIN response.candidates[1].content.parts[j]

\* the batch after the calls of `answers` (call |-> response) have settled in
\* the order `settled`: it stays suspended while a call is pending; once all
\* have settled Promise.all resolves and the callers' continuations run
Settle(answers, settled) ==
    LET results == [i \in Calls |-> IF i \in DOMAIN answers
                                    THEN GenerateSingleImage(answers[i])
                                    ELSE batch.results[i]]
        order == batch.order \o settled
        carried == batch.carried \cup {i \in DOMAIN answers : CarriesImage(answers[i])}
    IN IF \E i \in Calls : results[i] = Pending
       THEN /\ batch' = [batch EXCEPT !.results = results, !.order = order,
                                      !.carried = carried]
            /\ UNCHANGED <<outcome, generatedImages, isGenerating, error>>
       ELSE /\ batch' = Null
            /\ outcome' = [caller |-> batch.caller, kind |-> Aggregate(results).kind,
                            images |-> Aggregate(results).images,
                            message |-> Aggregate(results).message,
                            order |-> order, carried |-> carried]
            /\ IF batch.caller = "handleGenerate"
               THEN AfterGenerate(Aggregate(results))
               ELSE UNCHANGED <<generatedImages, isGenerating, error>>

\* Variant: handleGenerate without its check of the pose
ValidateCharactersOnly(characters, pose) ==
    IF Len(characters) = 0 THEN "Please upload at least one character sheet."
    ELSE NoError

\* (src/App.tsx) the two checks that open handleGenerate: the message of the
\* first that fails, NoError when both pass
Validate(characters, pose) ==
    IF Len(characters) = 0 THEN "Please upload at least one character sheet."
    ELSE IF pose = Null THEN "Please upload a pose/composition reference."
    ELSE NoError

\* (src/App.tsx) handleGenerate, from the click to `await generateMangaPanel`.
\* The button is disabled while isGenerating; its other two conditions are the
\* ones the handler checks itself.
HandleGenerate ==
    /\ actions < MaxActions
    /\ actions' = actions + 1
    /\ ~isGenerating
    /\ IF Validate(characterImages, poseImage) /= NoError
       THEN /\ error' = Validate(characterImages, poseImage)
            /\ UNCHANGED <<generatedImages, isGenerating, svcVars>>
       ELSE /\ isGenerating' = TRUE
            /\ error' = NoError
            /\ generatedImages' = <<>>
            /\ StartBatch("handleGenerate", characterImages, poseImage, customPrompt)
    /\ UNCHANGED <<characterImages, poseImage, customPrompt, uploads, poseReads, poseChosen>>
    /\ UNCHANGED canvasVars

\* generateMangaPanel called by another caller than handleGenerate
GenerateMangaPanel(characterImageBase64s, poseImageBase64, additionalPrompt) ==
    /\ actions < MaxActions
    /\ actions' = actions + 1
    /\ batch = Null
    /\ StartBatch("direct", characterImageBase64s, poseImageBase64, additionalPrompt)
    /\ UNCHANGED appVars
    /\ UNCHANGED canvasVars

\* settlements that may come out of dispatch order, per batch
MaxEarly == 1

\* the generateContent call of call i settles with `response`
RemoteCallSettles(i, response) ==
    /\ batch /= Null
    /\ batch.results[i] = Pending
    /\ \/ Len(batch.order) < MaxEarly
       \/ \A j \in 1..(i - 1) : batch.results[j] /= Pending
    /\ Settle([j \in {i} |-> response], <<i>>)
    /\ UNCHANGED <<characterImages, poseImage, customPrompt, uploads, poseReads, poseChosen,
                   issued, actions>>
    /\ UNCHANGED canvasVars

\* the ten generateContent calls settle, in dispatch order, between two user
\* actions: the first k with an image, the others with `response`
AllRemoteCallsSettle(k, response) ==
    /\ batch /= Null
    /\ Settle([i \in Calls |-> IF i <= k
                               THEN [candidates |-> <<[content |-> [parts |-> <<InlinePart(i)>>]]>>]
                               ELSE response],
              [i \in Calls |-> i])
    /\ UNCHANGED <<characterImages, poseImage, customPrompt, uploads, poseReads, poseChosen,
                   issued, actions>>
    /\ UNCHANGED canvasVars

----------------------------------------------------------------------------
(* Drawing Surface: src/components/DrawingCanvas.tsx *)

\* points of a stroke the current path can hold
MaxPath == 3

\* buffer-space coordinates, after the handlers' rescaling
Points == {<<0, 0>>, <<1, 1>>}

\* the values the width and height props take
Dimensions == {256, 512}

\* the segments ctx.stroke() rasterizes for path p
Segments(p) == {<<p[j], p[j + 1]>> : j \in 1..(Len(p) - 1)}

\* the bitmap after ctx.fillRect(0, 0, width, height) with the black fill
Filled(w, h) == [width |-> w, height |-> h, strokes |-> {}]

\* the useEffect of [width, height]: sizes the canvas, keeps the context and
\* fills the bitmap; nothing happens to the bitmap without a context
InitializeCanvas(w, h) ==
    IF contextAvailable
    THEN /\ ctxRef' = [lineCap |-> "round", lineJoin |-> "round",
                       strokeStyle |-> "white", lineWidth |-> 8]
         /\ buffer' = Filled(w, h)
         /\ path' = <<>>
         /\ drawnSince' = FALSE
    ELSE /\ buffer' = [width |-> w, height |-> h, strokes |-> {}]
         /\ UNCHANGED <<ctxRef, path, drawnSince>>

\* the component is mounted: the effect runs for the first time
Mount ==
    /\ buffer = Null
    /\ InitializeCanvas(width, height)
    /\ UNCHANGED <<width, height, contextAvailable, isDrawing, hasContent>>
    /\ UNCHANGED <<appVars, svcVars, actions>>

\* the parent renders the component with other dimensions: the effect runs again
ChangeDimensions(w, h) ==
    /\ buffer /= Null
    /\ <<w, h>> /= <<width, height>>
    /\ width' = w
    /\ height' = h
    /\ InitializeCanvas(w, h)
    /\ UNCHANGED <<contextAvailable, isDrawing, hasContent>>
    /\ UNCHANGED <<appVars, svcVars, actions>>

\* startDrawing(x, y), from handleMouseDown and handleTouchStart
StartDrawing(point) ==
    /\ buffer /= Null
    /\ IF ctxRef = Null
       THEN UNCHANGED <<path, isDrawing, hasContent, drawnSince>>
       ELSE /\ path' = <<point>>
            /\ isDrawing' = TRUE
            /\ hasContent' = TRUE
            /\ drawnSince' = TRUE
    /\ UNCHANGED <<width, height, contextAvailable, ctxRef, buffer>>
    /\ UNCHANGED <<appVars, svcVars, actions>>

\* Variant: draw without its test of the isDrawing flag
DrawWithoutActiveTest(point) ==
    /\ buffer /= Null
    /\ Len(path) < MaxPath
    /\ IF ctxRef = Null
       THEN UNCHANGED <<path, buffer, drawnSince>>
       ELSE /\ path' = Append(path, point)
            /\ buffer' = [buffer EXCEPT !.strokes = @ \cup Segments(Append(path, point))]
            /\ drawnSince' = TRUE
    /\ UNCHANGED <<width, height, contextAvailable, ctxRef, isDrawing, hasContent>>
    /\ UNCHANGED <<appVars, svcVars, actions>>

\* draw(x, y), from handleMouseMove and handleTouchMove
Draw(point) ==
    /\ buffer /= Null
    /\ Len(path) < MaxPath
    /\ IF ~isDrawing \/ ctxRef = Null
       THEN UNCHANGED <<path, buffer, drawnSince>>
       ELSE /\ path' = Append(path, point)
            /\ buffer' = [buffer EXCEPT !.strokes = @ \cup Segments(Append(path, point))]
            /\ drawnSince' = TRUE
    /\ UNCHANGED <<width, height, contextAvailable, ctxRef, isDrawing, hasContent>>
    /\ UNCHANGED <<appVars, svcVars, actions>>

\* stopDrawing, from mouse up, mouse leave and touch end
StopDrawing ==
    /\ buffer /= Null
    /\ IF ctxRef = Null
       THEN UNCHANGED <<path, isDrawing>>
       ELSE /\ path' = IF Len(path) > 1 /\ path[Len(path)] /= path[1]
                       THEN Append(path, path[1]) ELSE path
            /\ isDrawing' = FALSE
    /\ UNCHANGED <<width, height, contextAvailable, ctxRef, buffer, hasContent, drawnSince>>
    /\ UNCHANGED <<appVars, svcVars, actions>>

\* clearCanvas of the ref, and the click handler of the "Clear Canvas" button
ClearCanvas ==
    /\ buffer /= Null
    /\ IF ctxRef /= Null
       THEN /\ buffer' = Filled(width, height)
            /\ hasContent' = FALSE
            /\ drawnSince' = FALSE
       ELSE UNCHANGED <<buffer, hasContent, drawnSince>>
    /\ UNCHANGED <<width, height, contextAvailable, ctxRef, path, isDrawing>>
    /\ UNCHANGED <<appVars, svcVars, actions>>

\* isEmpty of the ref
IsEmpty == ~hasContent

----------------------------------------------------------------------------

\* the component as first rendered, before its effect has run
InitCanvas ==
    /\ width \in Dimensions
    /\ height \in Dimensions
    /\ contextAvailable \in BOOLEAN
    /\ ctxRef = Null
    /\ buffer = Null
    /\ path = <<>>
    /\ isDrawing = FALSE
    /\ hasContent = FALSE
    /\ drawnSince = FALSE

\* the images of the two readable image files
ImageA == DataUrl(PngA)
ImageB == DataUrl(GifB)

\* the App as first rendered
FreshApp ==
    /\ characterImages = <<>>
    /\ poseImage = Null
    /\ generatedImages = <<>>
    /\ isGenerating = FALSE
    /\ error = NoError
    /\ customPrompt = ""
    /\ uploads = <<>>
    /\ poseReads = <<>>
    /\ poseChosen = Null
    /\ batch = Null
    /\ outcome = Null
    /\ issued = 0
    /\ actions = 0

\* the App once `characters` and `pose` have been uploaded and `context` typed,
\* nothing in flight, with MaxActions - spent operations left
PreparedApp(characters, pose, context, spent) ==
    /\ characterImages = characters
    /\ poseImage = pose
    /\ generatedImages = <<>>
    /\ isGenerating = FALSE
    /\ error = NoError
    /\ customPrompt = context
    /\ uploads = <<>>
    /\ poseReads = <<>>
    /\ poseChosen = pose
    /\ batch = Null
    /\ outcome = Null
    /\ issued = 0
    /\ actions = spent

(* The session: every handler of the App, with the ten calls of a batch
   settling together *)

Init ==
    /\ FreshApp \/ PreparedApp(<<ImageA, ImageB>>, ImageA, "", 0)
    /\ InitCanvas
    /\ width = 512
    /\ height = 512
    /\ contextAvailable

Next ==
    \/ \E files \in FileLists \cup {NullFileList} : HandleCharacterFiles(files)
    \/ \E k \in 1..Len(uploads) : CharacterReadSettles(k)
    \/ \E file \in Files \cup {Null} : HandlePoseFile(file)
    \/ \E k \in 1..Len(poseReads) : PoseReadSettles(k)
    \/ \E index \in 0..(MaxActions * MaxFiles) : RemoveCharacterImage(index)
    \/ ClearCharacters
    \/ ClearPose
    \/ \E text \in {"", "dramatic"} : SetCustomPrompt(text)
    \/ HandleGenerate
    \/ \E k \in {0, 1, numberOfVariations} : AllRemoteCallsSettle(k, Throws)

Spec == Init /\ [][Next]_vars

(* One generation request, its ten calls settling one by one *)

\* a session whose uploads have completed, with one operation left
InitService ==
    /\ \E characters \in {<<>>, <<ImageA, ImageB>>}, pose \in {Null, ImageB} :
           PreparedApp(characters, pose, "dramatic", MaxActions - 1)
    /\ InitCanvas
    /\ width = 512
    /\ height = 512
    /\ contextAvailable

NextService ==
    \/ HandleGenerate
    \/ GenerateMangaPanel(characterImages, poseImage, customPrompt)
    \/ \E i \in Calls : \E response \in Responses(i) : RemoteCallSettles(i, response)

SpecService == InitService /\ [][NextService]_vars

\* a remote call settles: generateContent resolves or rejects, and the event
\* loop runs the continuation of the settled promise.  Here the calls settle in
\* the order of their dispatch, except that the last one may overtake.
RemoteCallsSettle ==
    \E i \in Calls : \E response \in Responses(i) :
        /\ batch /= Null
        /\ i = numberOfVariations \/ \A j \in 1..(i - 1) : batch.results[j] /= Pending
        /\ RemoteCallSettles(i, response)

(* One generation requested through the Generate button, under the
   scheduling the runtime gives: a call that can settle does settle *)

\* a session with its uploads completed and one operation left
InitGeneration ==
    /\ PreparedApp(<<ImageA, ImageB>>, ImageB, "dramatic", MaxActions - 1)
    /\ InitCanvas
    /\ width = 512
    /\ height = 512
    /\ contextAvailable

NextGeneration ==
    \/ HandleGenerate
    \/ RemoteCallsSettle

SpecGeneration == InitGeneration /\ [][NextGeneration]_vars /\ WF_vars(RemoteCallsSettle)

(* The drawing surface *)

InitSurface ==
    /\ FreshApp
    /\ InitCanvas

NextCanvas ==
    \/ Mount
    \/ \E w \in Dimensions, h \in Dimensions : ChangeDimensions(w, h)
    \/ \E point \in Points : StartDrawing(point)
    \/ \E point \in Points : Draw(point)
    \/ StopDrawing
    \/ ClearCanvas

SpecCanvas == InitSurface /\ [][NextCanvas]_vars

----------------------------------------------------------------------------
(* The claims *)

ValidationErrors ==
    {"Please upload at least one character sheet.",
     "Please upload a pose/composition reference."}

\* a generation is requested through handleGenerate, or through generateMangaPanel
\* with the session's state as its arguments
DirectCall == GenerateMangaPanel(characterImages, poseImage, customPrompt)

\* C1 (as stated): a generation requested with an empty CharacterSet or an unset
\* PoseReference fails and issues no remote call, whichever of handleGenerate and
\* generateMangaPanel it enters through.
C1_EveryEntryValidates ==
    [][(Len(characterImages) = 0 \/ poseImage = Null) /\ (HandleGenerate \/ DirectCall)
       => /\ issued' = issued
          /\ batch' = Null
          /\ \/ error' \in ValidationErrors
             \/ (outcome' /= Null /\ outcome'.kind = "raised")]_vars

\* C1 (amended): handleGenerate requested with an empty CharacterSet or an unset
\* PoseReference sets a validation error, dispatches nothing and issues no remote
\* call; generateMangaPanel does not validate: an unset pose makes it throw before
\* any call, and with a pose it issues its ten calls even for no character image.
C1_HandleGenerateValidates ==
    [][/\ (Len(characterImages) = 0 \/ poseImage = Null) /\ HandleGenerate
          => /\ error' \in ValidationErrors
             /\ issued' = issued
             /\ batch' = Null
             /\ ~isGenerating'
       /\ poseImage = Null /\ DirectCall
          => /\ issued' = issued
             /\ batch' = Null
             /\ outcome'.kind = "raised"
       /\ poseImage /= Null /\ DirectCall
          => /\ issued' = issued + numberOfVariations
             /\ batch' /= Null]_vars

\* handleGenerate has refused a request for want of a pose, with no call issued
C1_Witness ==
    /\ error = "Please upload a pose/composition reference."
    /\ Len(characterImages) > 0
    /\ issued = 0
    /\ batch = Null

\* C2: a generation issues exactly ten remote calls, and when k >= 1 of them
\* answer with an image and the others fail (a rejection, no candidate, a
\* candidate without inline data), in any order of settlement, the outcome holds
\* exactly k images and no failure reaches the caller: nothing is raised and the
\* error slot stays empty.
C2_PartialFailureAbsorbed ==
    /\ batch /= Null => issued = numberOfVariations /\ DOMAIN batch.requests = Calls
    /\ outcome /= Null /\ outcome.carried /= {}
       => /\ issued = numberOfVariations
          /\ outcome.kind = "returned"
          /\ Len(outcome.images) = Cardinality(outcome.carried)
          /\ outcome.caller = "handleGenerate"
             => /\ generatedImages = outcome.images
                /\ error = NoError
                /\ ~isGenerating

\* seven calls of handleGenerate's batch answered with an image, three failed,
\* and the first to settle was not the first dispatched
C2_Witness ==
    /\ outcome /= Null
    /\ outcome.caller = "handleGenerate"
    /\ Cardinality(outcome.carried) = 7
    /\ outcome.order[1] /= 1
    /\ Len(generatedImages) = 7

\* C3: when all ten calls of a batch fail, generateMangaPanel raises instead of
\* returning an empty sequence, no outcome is produced, and handleGenerate ends
\* with generatedImages empty and the error slot set.
C3_ExhaustedBatchRaises ==
    outcome /= Null /\ Len(outcome.order) = numberOfVariations /\ outcome.carried = {}
    => /\ outcome.kind = "raised"
       /\ outcome.images = <<>>
       /\ outcome.caller = "handleGenerate"
          => /\ generatedImages = <<>>
             /\ error /= NoError
             /\ ~isGenerating

\* the ten calls of handleGenerate's batch have all failed
C3_Witness ==
    /\ outcome /= Null
    /\ outcome.caller = "handleGenerate"
    /\ Len(outcome.order) = numberOfVariations
    /\ outcome.carried = {}
    /\ error = "Failed to generate any images."

\* the place of the image of call i in the returned images, 0 if it is not there
Place(images, i) ==
    IF \E n \in 1..Len(images) : images[n].data = i
    THEN CHOOSE n \in 1..Len(images) : images[n].data = i
    ELSE 0

\* C4 (as stated): the outcome lists the successful images in the order in which
\* their calls settled: if call i settled before call j, image i precedes image j.
C4_SettlementOrder ==
    outcome /= Null /\ outcome.kind = "returned"
    => \A p, q \in 1..Len(outcome.order) :
          p < q /\ outcome.order[p] \in outcome.carried /\ outcome.order[q] \in outcome.carried
          => Place(outcome.images, outcome.order[p]) < Place(outcome.images, outcome.order[q])

\* C4 (amended): the outcome lists the successful images in the order in which
\* their calls were dispatched, whatever the order in which they settled.
C4_DispatchOrder ==
    outcome /= Null /\ outcome.kind = "returned"
    => /\ {outcome.images[n].data : n \in 1..Len(outcome.images)} = outcome.carried
       /\ \A n, m \in 1..Len(outcome.images) :
             n < m => outcome.images[n].data < outcome.images[m].data

\* a later call settled before the first call, and both answered with an image
C4_Witness ==
    /\ outcome /= Null
    /\ outcome.kind = "returned"
    /\ outcome.order[1] /= 1
    /\ outcome.order[1] \in outcome.carried
    /\ 1 \in outcome.carried

\* the payload a request carries: the payloads of its image parts, and the two
\* interpolations of its text
Carries(request, characters, pose, context) ==
    /\ Len(request.parts) = Len(characters) + 1
    /\ \A j \in 1..Len(characters) : request.parts[j].data.payload = characters[j].data
    /\ request.parts[Len(characters) + 1].data.payload = pose.data
    /\ request.text.sheets = Len(characters)
    /\ request.text.additional = context

\* C5: the ten calls of a batch carry the same payload, built from the
\* CharacterSet, the PoseReference and the context as they were when the
\* generation was triggered; no step taken while the batch is in flight changes
\* the batch, and what it delivers is the images its calls answered with.
C5_SnapshotPayload ==
    [][/\ HandleGenerate /\ batch' /= Null
          => \A i \in Calls :
                Carries(batch'.requests[i], characterImages, poseImage, customPrompt)
       /\ batch /= Null /\ batch' /= Null
          => batch' = batch
       /\ batch /= Null /\ batch' = Null /\ outcome'.carried /= {}
          => /\ generatedImages' = outcome'.images
             /\ {outcome'.images[n].data : n \in 1..Len(outcome'.images)} = outcome'.carried]_vars

\* a batch delivered its ten images after the pose had been cleared in flight
C5_Witness ==
    /\ outcome /= Null
    /\ outcome.kind = "returned"
    /\ Len(generatedImages) = numberOfVariations
    /\ poseImage = Null

\* C6: a pose file whose declared type is not an image type sets the error slot
\* and leaves PoseReference, CharacterSet and generatedImages as they were.
C6_RejectedPoseFile ==
    [][HandlePoseFile(Text)
       => /\ error' = "Please upload a valid image file."
          /\ poseImage' = poseImage
          /\ characterImages' = characterImages
          /\ generatedImages' = generatedImages
          /\ poseReads' = poseReads]_vars

\* a pose file was rejected while a pose was held
C6_Witness ==
    /\ error = "Please upload a valid image file."
    /\ poseImage /= Null
    /\ poseReads = <<>>

\* the images a batch of files is to add: those of its image-typed files that
\* can be read, in the order given
RECURSIVE Accepted(_)
Accepted(files) ==
    IF Len(files) = 0 THEN <<>>
    ELSE IF files[1].type \in {"image/png", "image/gif"} /\ files[1].readable
         THEN <<[mime |-> files[1].type, data |-> files[1].data]>> \o Accepted(Tail(files))
         ELSE Accepted(Tail(files))

\* the k-th suspended handleCharacterFiles runs to its end in this step
UploadCompletes(k) == CharacterReadSettles(k) /\ Len(uploads') < Len(uploads)

\* C7: when an upload batch completes, CharacterSet is what it was at that
\* moment followed by the batch's readable image-typed files in the order given
\* (the others are skipped, the batch goes on); every other step leaves
\* CharacterSet as it is, removes the entry of one index, or empties it.
C7_AppendInOrder ==
    [][/\ \A k \in 1..Len(uploads) :
             UploadCompletes(k)
             => characterImages' = characterImages \o Accepted(uploads[k].files)
       /\ \/ characterImages' = characterImages
          \/ \E k \in 1..Len(uploads) :
                /\ UploadCompletes(k)
                /\ characterImages' = characterImages \o Accepted(uploads[k].files)
          \/ \E n \in 1..Len(characterImages) :
                characterImages' = RemoveAt(characterImages, n)
          \/ characterImages' = <<>>]_vars

\* an upload batch has added its image behind the two entries held before
C7_Witness ==
    /\ characterImages = <<ImageA, ImageB, ImageA>>
    /\ uploads = <<>>
    /\ error = NoError

\* C8: a file that fails to decode surfaces no error when a file of its batch is
\* accepted, and the error slot is set when the batch yields no image at all.
C8_EmptyBatchSurfaced ==
    [][\A k \in 1..Len(uploads) :
          /\ UploadCompletes(k)
          /\ \E j \in 1..Len(uploads[k].files) : ~uploads[k].files[j].readable
          => IF Accepted(uploads[k].files) /= <<>>
             THEN error' = error
             ELSE error' /= NoError]_vars

\* an action completes successfully in this step: a pose is read, an upload
\* batch adds an image, a generation returns an image
PoseUploadSucceeds == \E k \in 1..Len(poseReads) : PoseReadSettles(k) /\ poseReads[k].readable
CharacterUploadSucceeds ==
    \E k \in 1..Len(uploads) : UploadCompletes(k) /\ Accepted(uploads[k].files) /= <<>>
GenerationSucceeds ==
    batch /= Null /\ batch.caller = "handleGenerate" /\ batch' = Null /\ outcome'.kind = "returned"

\* C9 (as stated): when an action completes successfully the error slot is
\* empty, under every interleaving with other actions.
C9_EmptyOnSuccess ==
    [][PoseUploadSucceeds \/ CharacterUploadSucceeds \/ GenerationSucceeds
       => error' = NoError]_vars

\* C9 (amended): the slot holds one error; a pose upload empties it when it
\* completes, a character upload when it starts and a generation when it is
\* dispatched; the completion of a character upload or of a generation leaves
\* the slot as it is, so that it is empty then unless another action has set an
\* error since.
C9_EmptiedWhereWritten ==
    [][/\ PoseUploadSucceeds => error' = NoError
       /\ (\E files \in FileLists : HandleCharacterFiles(files)) => error' = NoError
       /\ HandleGenerate /\ batch' /= Null => error' = NoError
       /\ CharacterUploadSucceeds => error' = error
       /\ GenerationSucceeds => error' = error]_vars

\* an upload batch has added its image although a pose file was rejected
\* after it had started
C9_Witness ==
    /\ characterImages = <<ImageA, ImageB, ImageB>>
    /\ uploads = <<>>
    /\ error = "Please upload a valid image file."
    /\ actions = 2

\* C10: IsEmpty() is true exactly when no stroke has been drawn since the most
\* recent Clear or Initialize, a re-initialization on a change of dimensions
\* included.
C10_IsEmptyTracksStrokes ==
    buffer /= Null /\ ctxRef /= Null => (IsEmpty <=> ~drawnSince)

\* C11: for every image the uploads accept, whatever its image type, and for
\* the pose image, the data placed in a remote request is the bare base64
\* payload: nothing of the "data:<mime>;base64," prefix is left in front of it.
C11_BarePayload ==
    batch /= Null
    => \A i \in Calls :
          \A j \in 1..Len(batch.requests[i].parts) :
             batch.requests[i].parts[j].data.prefix = ""

\* C12: a move changes the bitmap only while a stroke is active: a move that
\* arrives before any stroke has begun, or after a stroke has ended and before
\* the next begins, leaves the bitmap and both flags as they are; the end of a
\* stroke always leaves the active flag cleared, and only the beginning of a
\* stroke sets it.
C12_MoveNeedsActiveStroke ==
    [][/\ (\E point \in Points : Draw(point)) /\ ~isDrawing
          => /\ buffer' = buffer
             /\ isDrawing' = isDrawing
             /\ hasContent' = hasContent
       /\ (\E point \in Points : Draw(point)) /\ buffer' /= buffer
          => isDrawing /\ isDrawing'
       /\ StopDrawing => ~isDrawing'
       /\ ~isDrawing /\ isDrawing'
          => \E point \in Points : StartDrawing(point)]_vars

\* a stroke was rasterized and has ended: a move arriving now finds no active
\* stroke
C12_Witness ==
    /\ buffer /= Null
    /\ buffer.strokes /= {}
    /\ ~isDrawing
    /\ hasContent
    /\ Len(path) < MaxPath

\* C13: once every pose read has completed, PoseReference holds what the user
\* chose last: the image of the file selected last, whatever the order in which
\* the reads finished, and no pose when the user cleared it after selecting.
C13_LastChosenPoseWins ==
    poseReads = <<>> => poseImage = poseChosen

\* a batch dispatched by handleGenerate and not yet joined
InFlight == batch /= Null /\ batch.caller = "handleGenerate"

\* C14: isGenerating is true in every state in which a batch has been
\* dispatched and not yet joined, and when each of the ten calls eventually
\* settles the generation eventually finishes with isGenerating reset and either
\* generatedImages non-empty or the error slot set.
C14_FlagWhileInFlight ==
    /\ [](InFlight => isGenerating)
    /\ InFlight ~> (/\ batch = Null
                    /\ ~isGenerating
                    /\ generatedImages /= <<>> \/ error /= NoError)

\* a generation whose last call settled first has finished on the success path
\* with a single image, its flag reset
C14_Witness ==
    /\ outcome /= Null
    /\ outcome.caller = "handleGenerate"
    /\ outcome.kind = "returned"
    /\ outcome.order[1] = numberOfVariations
    /\ Len(generatedImages) = 1
    /\ ~isGenerating
    /\ batch = Null

====
